---- MODULE Spec2Model ----
(***************************************************************************)
(* lotsawa: an Earley recognizer with Leo items and precomputed prediction *)
(* closures.  The model follows the later Parser variant                   *)
(* (src/unnamed/part_001): Grammar(rules) is a pure precomputation, the    *)
(* Parser owns a chart `sets` and a counter `currentSet`, and push(token)  *)
(* runs advance and complete to their end before it returns.               *)
(*                                                                         *)
(* JavaScript arrays are 0-based; they are held here as sequences, so the  *)
(* element with JavaScript index i is seq[i + 1].  Symbol ids, rule        *)
(* numbers, Earley set indexes and origins keep their 0-based values.      *)
(***************************************************************************)
EXTENDS Integers, Sequences, FiniteSets, TLC

VARIABLES
  rulesIn,     \* the rule list the caller handed to Grammar()
  grammar,     \* the processed grammar Grammar() returned
  constructed, \* whether Parser(grammar) has been called
  sets,        \* Parser: the chart, sets[k + 1] is the item list of set k
  currentSet,  \* Parser: index of the set the next push fills
  input,       \* the tokens pushed so far (history)
  threw,       \* a push ended with an exception escaping to the caller
  twin,        \* a second Parser over the same grammar object: its
               \* constructed, sets, currentSet, input and threw
  loopIndex    \* complete: i + 1 of forEachCanExpand while the loop over
               \* the current set runs, 0 while no call is in progress

vars == <<rulesIn, grammar, constructed, sets, currentSet, input, threw, twin, loopIndex>>

(***************************************************************************)
(* Bounds of the model.                                                    *)
(***************************************************************************)
MaxSize == 5    \* symbols of a generated grammar, left-hand sides included
MaxInput == 3   \* pushes of arbitrary tokens
MaxRun == 18    \* pushes of the token "a" alone, for the test grammars
MaxTwinSize == 3 \* symbols of a generated grammar two Parsers share
MaxTwinInput == 2 \* pushes of arbitrary tokens on each of two Parsers

(***************************************************************************)
(* JavaScript values.                                                      *)
(***************************************************************************)
\* null and undefined, which the code tells apart nowhere (`!= null`); a value
\* that is no symbol number, rule number, set index or indexOf result
null == -2

\* Array.prototype.indexOf: the first 0-based index of x, -1 when absent
indexOf(arr, x) ==
  IF \E i \in 1..Len(arr) : arr[i] = x
  THEN (CHOOSE i \in 1..Len(arr) : arr[i] = x /\ \A j \in 1..(i - 1) : arr[j] # x) - 1
  ELSE -1

\* last(arr): the last entry, undefined for an empty array
last(arr) == IF Len(arr) = 0 THEN null ELSE arr[Len(arr)]

\* arr[i] read out of range is undefined
at(arr, i) == IF i >= 0 /\ i < Len(arr) THEN arr[i + 1] ELSE null

(***************************************************************************)
(* Defining a grammar.                                                     *)
(***************************************************************************)
Rule(name, syms) == [name |-> name, symbols |-> syms]

Ref(name) == [name |-> name, terminal |-> FALSE]

Terminal(symbol) == [name |-> symbol, terminal |-> TRUE]

(***************************************************************************)
(* The bit-matrix kernel (package bitmv).  A bit vector is the set of its  *)
(* set bits, a matrix a function from row numbers to bit vectors.          *)
(***************************************************************************)
bv_bit_test(vec, bit) == bit \in vec

RECURSIVE warshall(_, _)
warshall(m, k) ==
  IF k \notin DOMAIN m THEN m
  ELSE warshall([i \in DOMAIN m |-> IF k \in m[i] THEN m[i] \cup m[k] ELSE m[i]], k + 1)

\* the closure as it would be after a single round: paths of two steps only
transitiveClosureOneRound(m) ==
  [i \in DOMAIN m |-> m[i] \cup UNION {m[k] : k \in m[i] \cap DOMAIN m}]

\* M'[i][j] iff j is reachable from i in one or more steps of M
transitiveClosure(m) == warshall(m, 0)

\* bv_scan: the set bits in ascending order
RECURSIVE bv_scan(_)
bv_scan(vec) ==
  IF vec = {} THEN <<>>
  ELSE LET lo == CHOOSE x \in vec : \A y \in vec : x <= y
       IN <<lo>> \o bv_scan(vec \ {lo})

(***************************************************************************)
(* Grammar(rules): census, by_symbol, sympred, predictions, right          *)
(* recursion.                                                              *)
(***************************************************************************)
RECURSIVE censusRhs(_, _, _)
censusRhs(out, syms, i) ==
  IF i > Len(syms) THEN out
  ELSE IF indexOf(out, syms[i].name) = -1
  THEN censusRhs(Append(out, syms[i].name), syms, i + 1)
  ELSE censusRhs(out, syms, i + 1)

RECURSIVE censusFrom(_, _, _)
censusFrom(out, rules, j) ==
  IF j > Len(rules) THEN out
  ELSE IF indexOf(out, rules[j].name) = -1
  THEN censusFrom(censusRhs(Append(out, rules[j].name), rules[j].symbols, 1), rules, j + 1)
  ELSE censusFrom(censusRhs(out, rules[j].symbols, 1), rules, j + 1)

\* the list of symbol names in order of first appearance
censusSymbols(rules) == censusFrom(<<>>, rules, 1)

\* the rules after the census: r.sym and r.symbols[i] are symbol numbers
numberRules(rules, out) ==
  [j \in 1..Len(rules) |->
     [name |-> rules[j].name,
      sym |-> indexOf(out, rules[j].name),
      symbols |-> [i \in 1..Len(rules[j].symbols) |-> indexOf(out, rules[j].symbols[i].name)]]]

ruleNos(rules) == 0..(Len(rules) - 1)

collectRulesBySymbol(rules, nsyms) ==
  [s \in 0..(nsyms - 1) |-> bv_scan({j \in ruleNos(rules) : rules[j + 1].sym = s})]

\* generateSymbolMatrix as it would be without the closure
generateSymbolMatrixDirect(rules, nsyms) ==
  [sym \in 0..(nsyms - 1) |->
     {rules[j + 1].sym : j \in {k \in ruleNos(rules) : at(rules[k + 1].symbols, 0) = sym}}
     \cup {sym}]

generateSymbolMatrix(rules, nsyms) ==
  transitiveClosure(
    [sym \in 0..(nsyms - 1) |->
       {rules[j + 1].sym : j \in {k \in ruleNos(rules) : at(rules[k + 1].symbols, 0) = sym}}
       \cup {sym}])

\* generatePredictionMatrix as it would be without the closure
generatePredictionMatrixDirect(rules) ==
  [j \in ruleNos(rules) |->
     {k \in ruleNos(rules) : at(rules[j + 1].symbols, 0) # null
                             /\ at(rules[j + 1].symbols, 0) = rules[k + 1].sym}
     \cup {j}]

generatePredictionMatrix(rules) ==
  transitiveClosure(
    [j \in ruleNos(rules) |->
       {k \in ruleNos(rules) : at(rules[j + 1].symbols, 0) # null
                               /\ at(rules[j + 1].symbols, 0) = rules[k + 1].sym}
       \cup {j}])

\* out.push(ruleNo) unless already there, for each ruleNo of list from index i on
RECURSIVE pushNew(_, _, _)
pushNew(out, list, i) ==
  IF i > Len(list) THEN out
  ELSE IF indexOf(out, list[i]) = -1
  THEN pushNew(Append(out, list[i]), list, i + 1)
  ELSE pushNew(out, list, i + 1)

RECURSIVE predictionsFrom(_, _, _, _)
predictionsFrom(out, bySym, forRules, i) ==
  IF i > Len(bySym) THEN out
  ELSE predictionsFrom(pushNew(out, bv_scan(forRules[bySym[i]]), 1), bySym, forRules, i + 1)

predictionsForSymbols(by_symbol, forRules, nsyms) ==
  [sym \in 0..(nsyms - 1) |-> predictionsFrom(<<>>, by_symbol[sym], forRules, 1)]

\* identifyRightRecursion as it would be without the closure
identifyRightRecursionDirect(rules, nsyms) ==
  [sym \in 0..(nsyms - 1) |->
     {rules[j + 1].sym : j \in {k \in ruleNos(rules) : Len(rules[k + 1].symbols) > 0
                                                     /\ last(rules[k + 1].symbols) = sym}}]

identifyRightRecursion(rules, nsyms) ==
  transitiveClosure(
    [sym \in 0..(nsyms - 1) |->
       {rules[j + 1].sym : j \in {k \in ruleNos(rules) : Len(rules[k + 1].symbols) > 0
                                                       /\ last(rules[k + 1].symbols) = sym}}])

Grammar(rules0) ==
  LET withAccept == Append(rules0, Rule("_accept", <<Ref("start")>>))
      symbols == censusSymbols(withAccept)
      rules == numberRules(withAccept, symbols)
      n == Len(symbols)
      by_symbol == collectRulesBySymbol(rules, n)
      forRules == generatePredictionMatrix(rules)
  IN [rules |-> rules,
      acceptRule |-> Len(withAccept) - 1,
      symbols |-> symbols,
      by_symbol |-> by_symbol,
      sympred |-> generateSymbolMatrix(rules, n),
      predictions_for_rules |-> forRules,
      predictions_for_symbols |-> predictionsForSymbols(by_symbol, forRules, n),
      right_recursion |-> identifyRightRecursion(rules, n)]

(***************************************************************************)
(* The chart.                                                              *)
(***************************************************************************)
\* ruleEqual as it would be if the kind were part of an item's identity
ruleEqualKind(a, b) ==
  a.ruleNo = b.ruleNo /\ a.pos = b.pos /\ a.origin = b.origin /\ a.kind = b.kind

\* determine whether two rules are equal
ruleEqual(a, b) == a.ruleNo = b.ruleNo /\ a.pos = b.pos /\ a.origin = b.origin

\* add as it would be without the search for an equal item
addAlways(items, rule) == Append(items, rule)

\* Add a rule to an Earley set, detecting duplicates
add(items, rule) ==
  IF \E l \in 1..Len(items) : ruleEqual(items[l], rule) THEN items ELSE Append(items, rule)

Item(ruleNo, pos, origin, leoVal, kind) ==
  [ruleNo |-> ruleNo, pos |-> pos, origin |-> origin, leo |-> leoVal, kind |-> kind]

nextSymbol(g, prior) == at(g.rules[prior.ruleNo + 1].symbols, prior.pos)

\* symbolOf as it would be if a token without symbol number fell back to
\* symbol 0
symbolOfOrFirst(g, token) ==
  IF indexOf(g.symbols, token) = -1 THEN 0 ELSE indexOf(g.symbols, token)

symbolOf(g, token) == indexOf(g.symbols, token)

\* Determine leo recursion eligibility for rule
leo(g, rule, which) ==
  LET lastSym == last(rule.symbols)
  IN IF lastSym = rule.sym \/ bv_bit_test(g.right_recursion[rule.sym], lastSym)
     THEN which
     ELSE null

\* expandRule of predictCandidate as it would be if a predicted item took
\* set 0 as its origin
RECURSIVE expandPredictedAtZero(_, _, _, _, _)
expandPredictedAtZero(cur, list, i, leoVal, which) ==
  IF i > Len(list) THEN cur
  ELSE expandPredictedAtZero(add(cur, Item(list[i], 0, 0, leoVal, "P")), list, i + 1, leoVal,
                             which)

\* expandRule of predictCandidate, over the prediction list from index i on
RECURSIVE expandPredicted(_, _, _, _, _)
expandPredicted(cur, list, i, leoVal, which) ==
  IF i > Len(list) THEN cur
  ELSE expandPredicted(add(cur, Item(list[i], 0, which, leoVal, "P")), list, i + 1, leoVal, which)

predictCandidate(g, cur, candidate, which) ==
  LET rule == g.rules[candidate.ruleNo + 1]
  IN IF candidate.pos = 0 THEN cur
     ELSE IF Len(rule.symbols) > candidate.pos
     THEN expandPredicted(cur, g.predictions_for_symbols[rule.symbols[candidate.pos + 1]], 1,
                          leo(g, rule, IF candidate.leo = null THEN candidate.origin
                                       ELSE candidate.leo),
                          which)
     ELSE cur

\* expandRule of initialize
RECURSIVE expandInitial(_, _, _)
expandInitial(cur, list, i) ==
  IF i > Len(list) THEN cur
  ELSE expandInitial(add(cur, Item(list[i], 0, 0, null, "I")), list, i + 1)

initialize(g) ==
  expandInitial(<<>>, g.predictions_for_symbols[Len(g.symbols) - 1], 1)

\* the body of advance's loop over prev.items, from index i on
RECURSIVE advanceFrom(_, _, _, _, _, _)
advanceFrom(g, cur, prev, i, sym, which) ==
  IF i > Len(prev) THEN cur
  ELSE LET candidate == prev[i]
           rule == g.rules[candidate.ruleNo + 1]
           newItem == Item(candidate.ruleNo, candidate.pos + 1, candidate.origin,
                           IF candidate.leo # null THEN candidate.leo
                           ELSE leo(g, rule, candidate.origin),
                           "A")
       IN IF at(rule.symbols, candidate.pos) = sym
          THEN advanceFrom(g, predictCandidate(g, add(cur, newItem), newItem, which),
                           prev, i + 1, sym, which)
          ELSE advanceFrom(g, cur, prev, i + 1, sym, which)

\* advance(which, tok): the items of set `which` afterwards
advance(g, chart, which, tok) ==
  LET sym == symbolOf(g, tok)
      cur == chart[which + 1]
  IN IF sym = -1 THEN cur
     ELSE IF which - 1 < 0 THEN cur
     ELSE advanceFrom(g, cur, chart[which], 1, sym, which)

\* the Earley path as it would be if the advanced item took the current set
\* as its origin
RECURSIVE earleyFromHere(_, _, _, _, _, _, _)
earleyFromHere(g, cur, from, i, n, sym, which) ==
  IF i > n THEN cur
  ELSE LET candidate == from[i]
           newRule == Item(candidate.ruleNo, candidate.pos + 1, which, null, "C")
       IN IF sym = nextSymbol(g, candidate)
          THEN earleyFromHere(g, predictCandidate(g, add(cur, newRule), newRule, which),
                              from, i + 1, n, sym, which)
          ELSE earleyFromHere(g, cur, from, i + 1, n, sym, which)

\* the Earley path as it would be without predictCandidate(newRule, which)
RECURSIVE earleyFromNoPredict(_, _, _, _, _, _, _)
earleyFromNoPredict(g, cur, from, i, n, sym, which) ==
  IF i > n THEN cur
  ELSE LET candidate == from[i]
           newRule == Item(candidate.ruleNo, candidate.pos + 1, candidate.origin, null, "C")
       IN IF sym = nextSymbol(g, candidate)
          THEN earleyFromNoPredict(g, add(cur, newRule), from, i + 1, n, sym, which)
          ELSE earleyFromNoPredict(g, cur, from, i + 1, n, sym, which)

\* the Earley path of complete: sets[origin].items.forEach over the n items
\* the list had when the loop began
RECURSIVE earleyFrom(_, _, _, _, _, _, _)
earleyFrom(g, cur, from, i, n, sym, which) ==
  IF i > n THEN cur
  ELSE LET candidate == from[i]
           newRule == Item(candidate.ruleNo, candidate.pos + 1, candidate.origin, null, "C")
       IN IF sym = nextSymbol(g, candidate)
          THEN earleyFrom(g, predictCandidate(g, add(cur, newRule), newRule, which),
                          from, i + 1, n, sym, which)
          ELSE earleyFrom(g, cur, from, i + 1, n, sym, which)

\* the Leo path of complete finds an item of sets[drule.leo] expecting sym:
\* building the item to add reads `candidate`, which no enclosing scope
\* declares, so the ReferenceError leaves complete before add is called
leoTargetFound(g, chart, drule, sym) ==
  \E l \in 1..Len(chart[drule.leo + 1]) : sym = nextSymbol(g, chart[drule.leo + 1][l])

\* the callback complete hands to forEachCanExpand, for item i of set `which`
completeItem(g, chart, which, i) ==
  LET cur == chart[which + 1]
      drule == cur[i]
      sym == g.rules[drule.ruleNo + 1].sym
  IN IF drule.pos < Len(g.rules[drule.ruleNo + 1].symbols)
     THEN [sets |-> chart, threw |-> FALSE]
     ELSE IF drule.leo # null
     THEN [sets |-> chart, threw |-> leoTargetFound(g, chart, drule, sym)]
     ELSE LET from == chart[drule.origin + 1]
          IN [sets |-> [chart EXCEPT ![which + 1] =
                          earleyFrom(g, cur, from, 1, Len(from), sym, which)],
              threw |-> FALSE]

\* forEachCanExpand(cur.items, ...) from index i on: the list grows while
\* the loop runs; an exception ends it
RECURSIVE completeFrom(_, _, _, _)
completeFrom(g, chart, which, i) ==
  IF i > Len(chart[which + 1]) THEN [sets |-> chart, threw |-> FALSE]
  ELSE LET r == completeItem(g, chart, which, i)
       IN IF r.threw THEN r ELSE completeFrom(g, r.sets, which, i + 1)

complete(g, chart, which) == completeFrom(g, chart, which, 1)

\* success(tab): one accepting item in the table
RECURSIVE countMatches(_, _, _)
countMatches(g, tab, i) ==
  IF i > Len(tab) THEN 0
  ELSE (IF tab[i].origin = 0
           /\ tab[i].ruleNo = g.acceptRule
           /\ tab[i].pos = Len(g.rules[g.acceptRule + 1].symbols)
        THEN 1 ELSE 0) + countMatches(g, tab, i + 1)

\* success as it would be if the dot position of the accept rule went unchecked
successAnyPos(g, chart, cs) ==
  \E l \in 1..Len(last(chart)) :
    last(chart)[l].origin = 0 /\ last(chart)[l].ruleNo = g.acceptRule

success(g, chart, cs) ==
  IF cs = 0 /\ Len(chart) = 0 THEN TRUE
  ELSE countMatches(g, last(chart), 1) = 1

(***************************************************************************)
(* Parser(grammar), push and parse as functions of the Parser's own state: *)
(* sets and currentSet are variables of the closure Parser() creates, one  *)
(* pair per Parser.                                                        *)
(***************************************************************************)
\* Parser(grammar): initialize(); complete(0)
Parser(g) ==
  LET r == complete(g, <<initialize(g)>>, 0)
  IN [sets |-> r.sets, currentSet |-> 1, threw |-> r.threw]

\* handleToken as it would be if currentSet were one variable shared by all
\* Parsers instead of one per closure; the sets an assignment past the end of
\* the array skips are held as empty
handleTokenSharedCounter(g, p, tok) ==
  LET chart0 == IF Len(p.sets) > currentSet THEN p.sets
                ELSE p.sets \o [i \in 1..(currentSet + 1 - Len(p.sets)) |-> <<>>]
      advanced == [chart0 EXCEPT ![currentSet + 1] = advance(g, chart0, currentSet, tok)]
      r == complete(g, advanced, currentSet)
  IN [sets |-> r.sets,
      currentSet |-> IF r.threw THEN p.currentSet ELSE p.currentSet + 1,
      threw |-> r.threw]

\* handleToken as it would be if it filled the set before currentSet
handleTokenOffByOne(g, p, tok) ==
  LET which == p.currentSet - 1
      advanced == [p.sets EXCEPT ![which + 1] = advance(g, p.sets, which, tok)]
      r == complete(g, advanced, which)
  IN [sets |-> r.sets,
      currentSet |-> IF r.threw THEN p.currentSet ELSE p.currentSet + 1,
      threw |-> r.threw]

\* handleToken(tok).  An exception leaves it before currentSet += 1.
handleToken(g, p, tok) ==
  LET chart0 == IF Len(p.sets) > p.currentSet THEN p.sets ELSE Append(p.sets, <<>>)
      advanced == [chart0 EXCEPT ![p.currentSet + 1] = advance(g, chart0, p.currentSet, tok)]
      r == complete(g, advanced, p.currentSet)
  IN [sets |-> r.sets,
      currentSet |-> IF r.threw THEN p.currentSet ELSE p.currentSet + 1,
      threw |-> r.threw]

\* the loop of parse: p.push(toParse[i]) for each i; an exception ends it
RECURSIVE pushAll(_, _, _, _)
pushAll(g, p, toParse, i) ==
  IF p.threw \/ i > Len(toParse) THEN p
  ELSE pushAll(g, handleToken(g, p, toParse[i]), toParse, i + 1)

\* the JavaScript values parse returns: false, or the object Parser() returned
JsFalse == [type |-> "boolean", truthy |-> FALSE, members |-> {}, sets |-> <<>>]

JsTrue == [type |-> "boolean", truthy |-> TRUE, members |-> {}, sets |-> <<>>]

ParserObject(p) ==
  [type |-> "object", truthy |-> TRUE, members |-> {"push", "success", "tree"}, sets |-> p.sets]

\* parse as it would be if the loop began at the second token
parseFromSecond(g, toParse) ==
  LET p == pushAll(g, Parser(g), toParse, 2)
  IN [threw |-> p.threw,
      value |-> IF ~p.threw /\ success(g, p.sets, p.currentSet) THEN ParserObject(p) ELSE JsFalse]

\* parse(grammar, toParse): return p.success() && p
parse(g, toParse) ==
  LET p == pushAll(g, Parser(g), toParse, 1)
  IN [threw |-> p.threw,
      value |-> IF ~p.threw /\ success(g, p.sets, p.currentSet) THEN ParserObject(p) ELSE JsFalse]

(***************************************************************************)
(* The grammars and tokens the model ranges over.                          *)
(***************************************************************************)
GenSymbols == {Ref("start"), Ref("A"), Terminal("a")}

\* the rules of n symbols: a left-hand side and n - 1 right-hand symbols
GenRules(n) == {Rule(name, rhs) : name \in {"start", "A"}, rhs \in [1..(n - 1) -> GenSymbols]}

\* the rule lists of exactly n symbols
RECURSIVE GenGrammarsOf(_)
GenGrammarsOf(n) ==
  IF n = 0 THEN {<<>>}
  ELSE UNION {{<<r>> \o g : r \in GenRules(k), g \in GenGrammarsOf(n - k)} : k \in 1..n}

\* every rule list of at most MaxSize symbols over start, A and the terminal a
GenGrammars == UNION {GenGrammarsOf(n) : n \in 0..MaxSize}

\* src/test/fail.js
FailGrammar == <<Rule("start", <<Terminal("a")>>)>>

\* src/test/left-recursive.js, src/test/push-parser.js
LeftRecursive ==
  <<Rule("start", <<Ref("A")>>),
    Rule("A", <<Ref("A"), Terminal("a")>>),
    Rule("A", <<Terminal("a")>>)>>

\* src/test/nullable.js, first grammar
NullableStart == <<Rule("start", <<Terminal("a")>>), Rule("start", <<>>)>>

\* src/test/nullable.js, second grammar
MutualRight ==
  <<Rule("start", <<Ref("A")>>),
    Rule("A", <<Terminal("a"), Ref("B")>>),
    Rule("A", <<Terminal("a")>>),
    Rule("B", <<Terminal("a"), Ref("A")>>),
    Rule("B", <<Terminal("a")>>)>>

\* src/test/nullable.js, third grammar
RightRecursive ==
  <<Rule("start", <<Ref("A")>>),
    Rule("A", <<Terminal("a"), Ref("A")>>),
    Rule("A", <<Terminal("a")>>)>>

\* a right-recursive rule C -> A B behind nullable symbols: B is predicted in
\* set 0 from the item C -> A . B and completes there
NullableRight ==
  <<Rule("start", <<Ref("C"), Terminal("c")>>),
    Rule("C", <<Ref("A"), Ref("B")>>),
    Rule("A", <<>>),
    Rule("B", <<>>),
    Rule("B", <<Ref("C")>>)>>

\* two derivations of "a": start -> a and start -> A -> a
AmbiguousChoice ==
  <<Rule("start", <<Ref("A")>>),
    Rule("start", <<Terminal("a")>>),
    Rule("A", <<Terminal("a")>>)>>

\* src/unnamed/part_003: the JSON-like grammar; array and boolean have no rule
JsonLike ==
  <<Rule("start", <<Ref("value")>>),
    Rule("value", <<Ref("object")>>),
    Rule("value", <<Ref("array")>>),
    Rule("value", <<Ref("string")>>),
    Rule("value", <<Ref("number")>>),
    Rule("value", <<Ref("boolean")>>),
    Rule("number", <<Ref("digit")>>),
    Rule("number", <<Ref("number"), Ref("digit")>>),
    Rule("digit", <<Terminal("0")>>),
    Rule("digit", <<Terminal("1")>>),
    Rule("digit", <<Terminal("2")>>),
    Rule("digit", <<Terminal("3")>>),
    Rule("digit", <<Terminal("4")>>),
    Rule("digit", <<Terminal("5")>>),
    Rule("digit", <<Terminal("6")>>),
    Rule("digit", <<Terminal("7")>>),
    Rule("digit", <<Terminal("8")>>),
    Rule("digit", <<Terminal("9")>>),
    Rule("object", <<Terminal("{"), Ref("pairs"), Terminal("}")>>),
    Rule("pairs", <<Ref("pair")>>),
    Rule("pairs", <<Ref("pair"), Terminal(","), Ref("pairs")>>),
    Rule("pair", <<Ref("string"), Terminal(":"), Ref("value")>>),
    Rule("string", <<Terminal("\""), Ref("inside-string"), Terminal("\"")>>),
    Rule("string", <<Terminal("\""), Terminal("\"")>>),
    Rule("inside-string", <<Terminal("a"), Ref("inside-string")>>),
    Rule("inside-string", <<Terminal("a")>>)>>

\* the test's input {"a":"aaaaaaaaa","a":0123}, one token per character
JsonInput ==
  <<"{", "\"", "a", "\"", ":", "\"", "a", "a", "a", "a", "a", "a", "a", "a", "a", "\"",
    ",", "\"", "a", "\"", ":", "0", "1", "2", "3", "}">>

JsonTokens == {JsonInput[i] : i \in 1..Len(JsonInput)}

TestGrammars == {FailGrammar, LeftRecursive, NullableStart, MutualRight, RightRecursive}

ExtraGrammars == {NullableRight, AmbiguousChoice}

Grammars == GenGrammars \cup TestGrammars \cup ExtraGrammars \cup {JsonLike}

Tokens == {"a", "b", "A", "start"}

(***************************************************************************)
(* The state machine: Grammar(rules) has returned; Parser(grammar) and     *)
(* push(token) are the operations.                                         *)
(***************************************************************************)
\* no second Parser yet
NoTwin == [constructed |-> FALSE, sets |-> <<>>, currentSet |-> 1, input |-> <<>>, threw |-> FALSE]

Init ==
  /\ rulesIn \in Grammars
  /\ grammar = Grammar(rulesIn)
  /\ constructed = FALSE
  /\ sets = <<>>
  /\ currentSet = 1
  /\ input = <<>>
  /\ threw = FALSE
  /\ twin = NoTwin
  /\ loopIndex = 0

\* Parser(grammar): initialize(); complete(0)
NewParser ==
  /\ ~constructed
  /\ LET p == Parser(grammar)
     IN /\ sets' = p.sets
        /\ threw' = p.threw
        /\ currentSet' = p.currentSet
  /\ constructed' = TRUE
  /\ UNCHANGED <<rulesIn, grammar, input, twin, loopIndex>>

\* the runs the bounds admit: any MaxInput tokens, for the test grammars up
\* to MaxRun times the token "a", and for the JSON-like grammar the test's
\* input
MayPushAfter(inp, tok) ==
  IF rulesIn = JsonLike
  THEN Len(inp) < Len(JsonInput) /\ tok = JsonInput[Len(inp) + 1]
  ELSE /\ tok \in Tokens
       /\ \/ Len(inp) < MaxInput
          \/ /\ rulesIn \in TestGrammars
             /\ tok = "a"
             /\ \A i \in 1..Len(inp) : inp[i] = "a"
             /\ Len(inp) < MaxRun

MayPush(tok) == MayPushAfter(input, tok)

\* push(tok).  An exception leaves handleToken before currentSet += 1 and
\* ends the run: parse() does not catch it.
Push(tok) ==
  /\ constructed
  /\ ~threw
  /\ MayPush(tok)
  /\ LET p == handleToken(grammar,
                          [sets |-> sets, currentSet |-> currentSet, threw |-> threw], tok)
     IN /\ sets' = p.sets
        /\ threw' = p.threw
        /\ currentSet' = p.currentSet
  /\ input' = Append(input, tok)
  /\ UNCHANGED <<rulesIn, grammar, constructed, twin, loopIndex>>

Next ==
  \/ NewParser
  \/ \E tok \in Tokens \cup JsonTokens : Push(tok)

Spec == Init /\ [][Next]_vars

(***************************************************************************)
(* Two Parsers over one grammar object, their calls interleaved.           *)
(***************************************************************************)
TwinGrammars ==
  TestGrammars \cup ExtraGrammars \cup UNION {GenGrammarsOf(n) : n \in 0..MaxTwinSize}

InitTwin ==
  /\ rulesIn \in TwinGrammars
  /\ grammar = Grammar(rulesIn)
  /\ constructed = FALSE
  /\ sets = <<>>
  /\ currentSet = 1
  /\ input = <<>>
  /\ threw = FALSE
  /\ twin = NoTwin
  /\ loopIndex = 0

\* the runs of each of the two Parsers
TwinMayPush(inp, tok) ==
  /\ MayPushAfter(inp, tok)
  /\ Len(inp) < MaxTwinInput \/ rulesIn \in TestGrammars

\* the second Parser(grammar)
TwinNewParser ==
  /\ ~twin.constructed
  /\ LET p == Parser(grammar)
     IN twin' = [constructed |-> TRUE, sets |-> p.sets, currentSet |-> p.currentSet,
                 input |-> <<>>, threw |-> p.threw]
  /\ UNCHANGED <<rulesIn, grammar, constructed, sets, currentSet, input, threw, loopIndex>>

\* push(tok) on the second Parser
TwinPush(tok) ==
  /\ twin.constructed
  /\ ~twin.threw
  /\ TwinMayPush(twin.input, tok)
  /\ LET p == handleToken(grammar, twin, tok)
     IN twin' = [twin EXCEPT !.sets = p.sets, !.currentSet = p.currentSet,
                             !.threw = p.threw, !.input = Append(twin.input, tok)]
  /\ UNCHANGED <<rulesIn, grammar, constructed, sets, currentSet, input, threw, loopIndex>>

NextTwin ==
  \/ NewParser
  \/ \E tok \in Tokens : TwinMayPush(input, tok) /\ Push(tok)
  \/ TwinNewParser
  \/ \E tok \in Tokens : TwinPush(tok)

SpecTwin == InitTwin /\ [][NextTwin]_vars

(***************************************************************************)
(* One Parser over the smaller family of grammars and the JSON-like one.   *)
(***************************************************************************)
InitSmall ==
  /\ rulesIn \in TwinGrammars \cup {JsonLike}
  /\ grammar = Grammar(rulesIn)
  /\ constructed = FALSE
  /\ sets = <<>>
  /\ currentSet = 1
  /\ input = <<>>
  /\ threw = FALSE
  /\ twin = NoTwin
  /\ loopIndex = 0

SpecSmall == InitSmall /\ [][Next]_vars

(***************************************************************************)
(* Grammar(rules) and the construction of a Parser alone, for every        *)
(* grammar of the family.                                                  *)
(***************************************************************************)
\* a left-recursive rule beside an empty one
LeftRecursiveNullable ==
  <<Rule("start", <<Ref("A")>>),
    Rule("A", <<Ref("A"), Terminal("a")>>),
    Rule("A", <<>>)>>

InitGrammar ==
  /\ rulesIn \in Grammars \cup {LeftRecursiveNullable}
  /\ grammar = Grammar(rulesIn)
  /\ constructed = FALSE
  /\ sets = <<>>
  /\ currentSet = 1
  /\ input = <<>>
  /\ threw = FALSE
  /\ twin = NoTwin
  /\ loopIndex = 0

SpecGrammar == InitGrammar /\ [][NewParser]_vars

(***************************************************************************)
(* The loop of complete one item at a time: forEachCanExpand visits        *)
(* cur.items[i] for i = 0, 1, ... while i < cur.items.length, and the      *)
(* callback may lengthen the list.  JavaScript runs the loop to its end    *)
(* without interruption, hence the weak fairness of its steps.             *)
(***************************************************************************)
MaxStepSize == 4   \* symbols of a generated grammar whose loops run stepwise
MaxStepInput == 2  \* pushes of arbitrary tokens between such loops

\* cyclic unit rules through two symbols
UnitCycle ==
  <<Rule("start", <<Ref("A")>>),
    Rule("A", <<Ref("B")>>),
    Rule("B", <<Ref("A")>>),
    Rule("B", <<Terminal("a")>>),
    Rule("B", <<>>)>>

StepGrammars ==
  TestGrammars \cup ExtraGrammars \cup {LeftRecursiveNullable, UnitCycle}
    \cup UNION {GenGrammarsOf(n) : n \in 0..MaxStepSize}

InitSteps ==
  /\ rulesIn \in StepGrammars
  /\ grammar = Grammar(rulesIn)
  /\ constructed = FALSE
  /\ sets = <<>>
  /\ currentSet = 1
  /\ input = <<>>
  /\ threw = FALSE
  /\ twin = NoTwin
  /\ loopIndex = 0

\* Parser(grammar): initialize(), and complete(0) begins
StepNewParser ==
  /\ ~constructed
  /\ loopIndex = 0
  /\ sets' = <<initialize(grammar)>>
  /\ loopIndex' = 1
  /\ UNCHANGED <<rulesIn, grammar, constructed, currentSet, input, threw, twin>>

\* push(tok): the new set, advance(currentSet, tok), and complete(currentSet)
\* begins
StepPush(tok) ==
  /\ constructed
  /\ ~threw
  /\ loopIndex = 0
  /\ tok \in Tokens
  /\ Len(input) < MaxStepInput
  /\ LET chart0 == IF Len(sets) > currentSet THEN sets ELSE Append(sets, <<>>)
     IN sets' = [chart0 EXCEPT ![currentSet + 1] = advance(grammar, chart0, currentSet, tok)]
  /\ input' = Append(input, tok)
  /\ loopIndex' = 1
  /\ UNCHANGED <<rulesIn, grammar, constructed, currentSet, threw, twin>>

\* one turn of the loop: cb(it[i], i); i++.  An exception ends the call.
StepComplete ==
  /\ loopIndex >= 1
  /\ loopIndex <= Len(last(sets))
  /\ LET r == completeItem(grammar, sets, Len(sets) - 1, loopIndex)
     IN /\ sets' = r.sets
        /\ threw' = r.threw
        /\ loopIndex' = IF r.threw THEN 0 ELSE loopIndex + 1
        /\ constructed' = (constructed \/ r.threw)
  /\ UNCHANGED <<rulesIn, grammar, currentSet, input, twin>>

\* i < it.length fails: complete returns, and with it the constructor or,
\* after currentSet += 1, the push
StepReturn ==
  /\ loopIndex >= 1
  /\ loopIndex > Len(last(sets))
  /\ loopIndex' = 0
  /\ constructed' = TRUE
  /\ currentSet' = IF constructed THEN currentSet + 1 ELSE currentSet
  /\ UNCHANGED <<rulesIn, grammar, sets, input, threw, twin>>

NextSteps ==
  \/ StepNewParser
  \/ \E tok \in Tokens : StepPush(tok)
  \/ StepComplete
  \/ StepReturn

SpecSteps ==
  /\ InitSteps
  /\ [][NextSteps]_vars
  /\ WF_vars(StepComplete)
  /\ WF_vars(StepReturn)

(***************************************************************************)
(* The language of the rule list, by the definition of a context-free      *)
(* grammar and independent of the recognizer: a Terminal matches the token *)
(* equal to its literal, a Ref derives what some rule of that name         *)
(* derives.  derivations[<<X, i, j>>] is the number of derivation trees of *)
(* input[i+1..j] from X, counted up to 2.                                  *)
(***************************************************************************)
RuleNames == {rulesIn[j].name : j \in 1..Len(rulesIn)}

Spans == RuleNames \X (0..Len(input)) \X (0..Len(input))

min2(n) == IF n > 2 THEN 2 ELSE n

\* sum of f over the integers lo..hi, counted up to 2
RECURSIVE sum2(_, _, _)
sum2(f, lo, hi) == IF lo > hi THEN 0 ELSE min2(f[lo] + sum2(f, lo + 1, hi))

symTrees(D, s, p, e) ==
  IF s.terminal
  THEN IF e = p + 1 /\ input[e] = s.name THEN 1 ELSE 0
  ELSE IF s.name \in RuleNames THEN D[<<s.name, p, e>>] ELSE 0

\* the trees of syms[k..] over input[p+1..e]
RECURSIVE rhsTrees(_, _, _, _, _)
rhsTrees(D, syms, k, p, e) ==
  IF k > Len(syms) THEN (IF p = e THEN 1 ELSE 0)
  ELSE sum2([m \in p..e |-> min2(symTrees(D, syms[k], p, m) * rhsTrees(D, syms, k + 1, m, e))],
            p, e)

derivStep(D) ==
  [t \in Spans |->
     IF t[2] > t[3] THEN 0
     ELSE sum2([j \in 1..Len(rulesIn) |->
                  IF rulesIn[j].name = t[1] THEN rhsTrees(D, rulesIn[j].symbols, 1, t[2], t[3])
                  ELSE 0],
               1, Len(rulesIn))]

RECURSIVE derivFix(_)
derivFix(D) == LET N == derivStep(D) IN IF N = D THEN D ELSE derivFix(N)

derivations == derivFix([t \in Spans |-> 0])

startTrees ==
  IF "start" \in RuleNames THEN derivations[<<"start", 0, Len(input)>>] ELSE 0

\* the tokens pushed so far are a sentence of the grammar
InLanguage == startTrees >= 1

\* the tokens pushed so far have two or more derivations
Ambiguous == startTrees >= 2

\* what the caller of parse(grammar, input) or of push ... success() sees
Accepted == constructed /\ ~threw /\ success(grammar, sets, currentSet)

AllA == \A i \in 1..Len(input) : input[i] = "a"

(***************************************************************************)
(* The claims.                                                             *)
(***************************************************************************)
TokenKnown(tok) == \E s \in 1..Len(grammar.symbols) : grammar.symbols[s] = tok

\* C1: soundness.  Whenever the recognizer reports success for the tokens
\* pushed so far, those tokens are a sentence of the grammar (start derives
\* exactly them); so with the single rule start -> a every input other than
\* "a" is rejected.
C1_Soundness == Accepted => InLanguage

\* the names the rule list uses for rules: left-hand sides, Refs and the
\* reserved names
NonterminalNames ==
  RuleNames \cup {"start", "_accept"}
  \cup {rulesIn[j].symbols[i].name :
          <<j, i>> \in {p \in (1..Len(rulesIn)) \X (1..MaxSize) :
                          p[2] <= Len(rulesIn[p[1]].symbols)
                          /\ ~rulesIn[p[1]].symbols[p[2]].terminal}}

\* companion of C1: soundness for inputs none of whose tokens carries the
\* name of a nonterminal, in runs without exception
SoundOnTerminalTokens ==
  (Accepted /\ \A i \in 1..Len(input) : input[i] \notin NonterminalNames) => InLanguage

\* C2: completeness.  Whenever the tokens pushed so far are a sentence of the
\* grammar, the recognizer reports success, nullable symbols and right
\* recursion included.
C2_Completeness == (constructed /\ InLanguage) => Accepted

\* the accepting items of the last Earley set
AcceptingItems ==
  {l \in 1..Len(last(sets)) :
     /\ last(sets)[l].ruleNo = grammar.acceptRule
     /\ last(sets)[l].pos = Len(grammar.rules[grammar.acceptRule + 1].symbols)
     /\ last(sets)[l].origin = 0}

\* C3: after any sequence of pushes success() is true exactly when the last
\* Earley set holds exactly one item (acceptRule, |rhs(acceptRule)|, 0), and
\* false when it holds none.
C3_SuccessIffOneAcceptingItem ==
  constructed => (success(grammar, sets, currentSet) <=> Cardinality(AcceptingItems) = 1)

C3_Witness ==
  /\ constructed
  /\ Len(input) >= 1
  /\ Cardinality(AcceptingItems) = 1
  /\ success(grammar, sets, currentSet)

\* C4: an input with two or more derivations is reported as failure:
\* success() is false.
C4_AmbiguousFails ==
  (constructed /\ ~threw /\ Ambiguous) => ~success(grammar, sets, currentSet)

\* C5: when start derives the empty string, success() before any push is
\* true; and the grammar start -> a | empty accepts "a" as well.
C5_NullableStartAccepts ==
  /\ (constructed /\ input = <<>> /\ InLanguage) => Accepted
  /\ (constructed /\ rulesIn = NullableStart /\ input = <<"a">>) => Accepted

\* C6: when start does not derive the empty string, success() before any
\* push returns false.
C6_NonNullableStartRejects ==
  (constructed /\ input = <<>> /\ ~InLanguage)
    => (~threw /\ ~success(grammar, sets, currentSet))

\* companion of C6: when the constructor returns, success() before any push
\* is false for a start symbol that is not nullable
NonNullableStartRejectsUnlessThrown ==
  (constructed /\ ~threw /\ input = <<>> /\ ~InLanguage)
    => ~success(grammar, sets, currentSet)

\* C7: a push of a token that is not in the symbol table throws nothing and
\* adds no item to its Earley set; every later set stays empty and success()
\* is false from then on.
C7_UnknownTokenBlocks ==
  \A i \in 1..Len(input) :
    ~TokenKnown(input[i]) =>
      /\ ~threw
      /\ Len(sets) = Len(input) + 1
      /\ \A k \in i..Len(input) : sets[k + 1] = <<>>
      /\ ~success(grammar, sets, currentSet)

\* a known token was pushed after an unknown one that met a non-empty set
C7_Witness ==
  \E i \in 1..Len(input) :
    /\ ~TokenKnown(input[i])
    /\ Len(sets[i]) > 0
    /\ \E j \in (i + 1)..Len(input) : TokenKnown(input[j])

\* C8: the left-recursive grammar start -> A, A -> A a, A -> a accepts a^n
\* for every n >= 1.
C8_LeftRecursiveAccepts ==
  (constructed /\ rulesIn = LeftRecursive /\ Len(input) >= 1 /\ AllA) => Accepted

\* the test's input, eleven times "a"
C8_Witness ==
  /\ rulesIn = LeftRecursive
  /\ Len(input) = 11
  /\ AllA
  /\ Accepted

\* C9: the right-recursive grammar start -> A, A -> a A, A -> a accepts a^n
\* for every n >= 1.
C9_RightRecursiveAccepts ==
  (constructed /\ rulesIn = RightRecursive /\ Len(input) >= 1 /\ AllA) => Accepted

\* C10: the mutually right-recursive grammar start -> A, A -> a B, A -> a,
\* B -> a A, B -> a accepts a^n for every n >= 1.
C10_MutualRightAccepts ==
  (constructed /\ rulesIn = MutualRight /\ Len(input) >= 1 /\ AllA) => Accepted

\* C11: the JSON-like test grammar accepts the test's input pushed character
\* by character, and parse returns a truthy value with a `tree` member.
C11_JsonAccepted ==
  (constructed /\ rulesIn = JsonLike) =>
    /\ ~threw
    /\ input = JsonInput =>
         /\ success(grammar, sets, currentSet)
         /\ parse(grammar, JsonInput).value.truthy
         /\ "tree" \in parse(grammar, JsonInput).value.members

\* the number of dotted rules of the grammar: a bound on a set that holds no
\* dotted rule at more than one origin
RECURSIVE dottedRules(_, _)
dottedRules(rules, j) ==
  IF j > Len(rules) THEN 0 ELSE Len(rules[j].symbols) + 1 + dottedRules(rules, j + 1)

ThisParser == [sets |-> sets, currentSet |-> currentSet, threw |-> threw]

SameInput == constructed /\ twin.constructed /\ twin.input = input

C15_NoException == ~threw

\* C16: when no rule has the left-hand side start, success() is false after
\* every sequence of pushes, the empty one included.
C16_NoStartRuleRejects ==
  (constructed /\ "start" \notin RuleNames) => (~threw /\ ~success(grammar, sets, currentSet))

\* the symbols that are some rule's left-hand side
LhsNames == RuleNames \cup {"_accept"}

\* C17: a token is matched against terminals only: the push of a token that
\* carries the name of a rule's left-hand side advances no item, so the set
\* it fills stays empty.
C17_TokensMatchTerminalsOnly ==
  \A i \in 1..Len(input) :
    (input[i] \in LhsNames /\ Len(sets) > i) => sets[i + 1] = <<>>

\* C18: no Earley set holds two items with the same (ruleNo, pos, origin),
\* and add() of an item whose triple is present leaves the set as it is,
\* also when the item differs from the one present in leo or kind.
C18_IdentityUnique ==
  \A k \in 1..Len(sets) :
    \A l \in 1..Len(sets[k]) :
      /\ \A m \in 1..Len(sets[k]) :
           (/\ sets[k][l].ruleNo = sets[k][m].ruleNo
            /\ sets[k][l].pos = sets[k][m].pos
            /\ sets[k][l].origin = sets[k][m].origin) => l = m
      /\ \A other \in {Item(sets[k][l].ruleNo, sets[k][l].pos, sets[k][l].origin, null, "L"),
                         Item(sets[k][l].ruleNo, sets[k][l].pos, sets[k][l].origin,
                              sets[k][l].origin, "I")} :
           add(sets[k], other) = sets[k]

\* an item of set 0 with the dot inside its rule predicts a rule whose
\* initial item is already there: the prediction was offered to add() with
\* kind P and the item of kind I stayed
C18_Witness ==
  /\ constructed
  /\ \E l, m \in 1..Len(sets[1]) :
       /\ sets[1][l].pos >= 1
       /\ nextSymbol(grammar, sets[1][l]) # null
       /\ sets[1][m].kind = "I"
       /\ sets[1][m].pos = 0
       /\ indexOf(grammar.predictions_for_symbols[nextSymbol(grammar, sets[1][l])],
                  sets[1][m].ruleNo) # -1

\* C19: every item of set k has 0 <= origin <= k, and origin = k when its
\* dot is at position 0.
C19_OriginBound ==
  \A k \in 1..Len(sets) :
    \A l \in 1..Len(sets[k]) :
      /\ 0 <= sets[k][l].origin
      /\ sets[k][l].origin <= k - 1
      /\ sets[k][l].pos = 0 => sets[k][l].origin = k - 1

\* a set after the second push holds a predicted item and a completion that
\* reaches back to set 0
C19_Witness ==
  /\ Len(input) >= 2
  /\ \E l, m \in 1..Len(last(sets)) :
       /\ last(sets)[l].pos = 0
       /\ last(sets)[m].kind = "C"
       /\ last(sets)[m].origin = 0

\* C20: a push adds one set to the chart and leaves the item lists of the
\* sets before it and the grammar as they were; the chart then has one set
\* more than tokens were pushed.
C20_PushFrame ==
  [][input' # input =>
       /\ Len(sets') = Len(sets) + 1
       /\ SubSeq(sets', 1, Len(sets)) = sets
       /\ Len(sets') = Len(input') + 1
       /\ grammar' = grammar
       /\ rulesIn' = rulesIn]_vars

\* the third set was filled from items of earlier sets
C20_Witness ==
  /\ Len(input) >= 2
  /\ ~threw
  /\ Len(sets) = Len(input) + 1
  /\ \E l \in 1..Len(last(sets)) : last(sets)[l].origin < Len(input)

(***************************************************************************)
(* The grammar tables against reachability computed as a least fixed       *)
(* point over the rules of the grammar.                                    *)
(***************************************************************************)
SymbolNos == 0..(Len(grammar.symbols) - 1)

\* <<x, y>>: x has a rule whose first rhs symbol is y
FirstOf ==
  {<<grammar.rules[j].sym, grammar.rules[j].symbols[1]>> :
     j \in {k \in 1..Len(grammar.rules) : Len(grammar.rules[k].symbols) > 0}}

\* <<x, y>>: x has a rule whose last rhs symbol is y
LastOf ==
  {<<grammar.rules[j].sym, last(grammar.rules[j].symbols)>> :
     j \in {k \in 1..Len(grammar.rules) : Len(grammar.rules[k].symbols) > 0}}

RECURSIVE reachFrom(_, _)
reachFrom(S, rel) ==
  LET N == S \cup {p[2] : p \in {q \in rel : q[1] \in S}}
  IN IF N = S THEN S ELSE reachFrom(N, rel)

\* what a reaches in one or more steps of rel
ReachPlus(a, rel) == reachFrom({p[2] : p \in {q \in rel : q[1] = a}}, rel)

\* what a reaches in zero or more steps of rel
ReachStar(a, rel) == reachFrom({a}, rel)

TransitivelyClosed(m) ==
  \A i \in DOMAIN m : \A k \in m[i] \cap DOMAIN m : m[k] \subseteq m[i]

\* C21: sympred and right_recursion are transitively closed, every bit set
\* before the closure is still set, and sympred[s][s] is set for every
\* symbol s.
C21_ClosureConsistent ==
  /\ TransitivelyClosed(grammar.sympred)
  /\ TransitivelyClosed(grammar.right_recursion)
  /\ \A p \in FirstOf : p[1] \in grammar.sympred[p[2]]
  /\ \A p \in LastOf : p[1] \in grammar.right_recursion[p[2]]
  /\ \A sym \in SymbolNos : sym \in grammar.sympred[sym]

\* a chain of three first-symbol steps: the last link needs a second round
C21_Witness ==
  /\ constructed
  /\ \E a, b, c, d \in SymbolNos :
       /\ Cardinality({a, b, c, d}) = 4
       /\ {<<b, a>>, <<c, b>>, <<d, c>>} \subseteq FirstOf
       /\ <<d, b>> \notin FirstOf
       /\ <<d, a>> \notin FirstOf
       /\ <<c, a>> \notin FirstOf
       /\ d \in grammar.sympred[a]

\* C22 as stated: right_recursion[lhs][sym] is set iff sym is reached from
\* lhs by one or more steps through the last rhs symbol of a rule.
C22_RowIsLhs ==
  \A lhs, sym \in SymbolNos :
    (sym \in grammar.right_recursion[lhs]) <=> (sym \in ReachPlus(lhs, LastOf))

\* C22 amended: the row is the rightmost symbol reached and the column the
\* lhs the chain starts from; rules with an empty rhs contribute no bit.
C22_RowIsRightmost ==
  \A lhs, sym \in SymbolNos :
    (lhs \in grammar.right_recursion[sym]) <=> (sym \in ReachPlus(lhs, LastOf))

\* a chain of two rules, not a single rule, reaches sym from lhs, and not
\* the other way round
C22_Witness ==
  /\ constructed
  /\ \E lhs, sym \in SymbolNos :
       /\ sym \in ReachPlus(lhs, LastOf)
       /\ <<lhs, sym>> \notin LastOf
       /\ lhs \notin ReachPlus(sym, LastOf)
       /\ lhs \in grammar.right_recursion[sym]
       /\ sym \notin grammar.right_recursion[lhs]
  /\ \E j \in 1..Len(grammar.rules) : Len(grammar.rules[j].symbols) = 0

\* C23 as stated: sympred[a][b] is set iff a = b or b is reached from a by
\* one or more steps 'X has a rule whose first rhs symbol is Y'.
C23_RowIsExpected ==
  \A a, b \in SymbolNos :
    (b \in grammar.sympred[a]) <=> (a = b \/ b \in ReachPlus(a, FirstOf))

\* C23 amended: sympred[a][b] is set iff a = b or a is reached from b by
\* one or more such steps: the row is the first rhs symbol, the column the
\* lhs of a rule that can begin with it.
C23_RowIsFirstSymbol ==
  \A a, b \in SymbolNos :
    (b \in grammar.sympred[a]) <=> (a = b \/ a \in ReachPlus(b, FirstOf))

\* b begins with a through two rules, and a does not begin with b
C23_Witness ==
  /\ constructed
  /\ \E a, b \in SymbolNos :
       /\ a # b
       /\ a \in ReachPlus(b, FirstOf)
       /\ <<b, a>> \notin FirstOf
       /\ b \notin ReachPlus(a, FirstOf)
       /\ b \in grammar.sympred[a]
       /\ a \notin grammar.sympred[b]

\* C24: predictions_for_symbols[s] lists, without duplicates, exactly the
\* rules whose lhs is reached from s in zero or more steps 'X has a rule
\* whose first rhs symbol is Y', rules with an empty rhs among them; it is
\* empty when s is the lhs of no rule.
C24_PredictionsExact ==
  \A s \in SymbolNos :
    LET list == grammar.predictions_for_symbols[s]
        isLhs == \E j \in 1..Len(grammar.rules) : grammar.rules[j].sym = s
    IN /\ \A l, m \in 1..Len(list) : list[l] = list[m] => l = m
       /\ {list[l] : l \in 1..Len(list)} =
            IF isLhs
            THEN {j \in ruleNos(grammar.rules) :
                    grammar.rules[j + 1].sym \in ReachStar(s, FirstOf)}
            ELSE {}

\* a list with a rule reached through two steps and a rule with an empty
\* rhs; two rules of one symbol whose predictions overlap; and the list of
\* a symbol that is no lhs
C24_Witness ==
  /\ constructed
  /\ \E s \in SymbolNos :
       LET list == grammar.predictions_for_symbols[s]
       IN /\ \E l \in 1..Len(list) :
               /\ grammar.rules[list[l] + 1].sym # s
               /\ <<s, grammar.rules[list[l] + 1].sym>> \notin FirstOf
          /\ \E l \in 1..Len(list) : Len(grammar.rules[list[l] + 1].symbols) = 0
  /\ \E j, k \in ruleNos(grammar.rules) :
       /\ j # k
       /\ grammar.rules[j + 1].sym = grammar.rules[k + 1].sym
       /\ grammar.predictions_for_rules[j] \cap grammar.predictions_for_rules[k] # {}
  /\ \E s \in SymbolNos :
       /\ \A j \in 1..Len(grammar.rules) : grammar.rules[j].sym # s
       /\ grammar.predictions_for_symbols[s] = <<>>

\* C25: once Parser() has returned, set 0 holds, for every rule r of
\* predictions_for_symbols[_accept], the item (r, 0, 0) without a Leo value,
\* also when start is first named by the accept rule and _accept is not the
\* last symbol.
C25_InitialSetPredictsAccept ==
  constructed =>
    \A l \in 1..Len(grammar.predictions_for_symbols[indexOf(grammar.symbols, "_accept")]) :
      \E m \in 1..Len(sets[1]) :
        /\ sets[1][m].ruleNo =
             grammar.predictions_for_symbols[indexOf(grammar.symbols, "_accept")][l]
        /\ sets[1][m].pos = 0
        /\ sets[1][m].origin = 0
        /\ sets[1][m].leo = null

\* C26: when the constructor or push() has returned, its set k is closed
\* under Earley completion: for a completed item d of set k without a Leo
\* value and an item c of set d.origin expecting lhs(d), the item
\* (c.ruleNo, c.pos + 1, c.origin) is in set k.
C26_CompletionFixedPoint ==
  (constructed /\ ~threw) =>
    \A l \in 1..Len(last(sets)) :
      LET d == last(sets)[l]
      IN (d.pos >= Len(grammar.rules[d.ruleNo + 1].symbols) /\ d.leo = null) =>
           \A n \in 1..Len(sets[d.origin + 1]) :
             LET c == sets[d.origin + 1][n]
             IN nextSymbol(grammar, c) = grammar.rules[d.ruleNo + 1].sym =>
                  \E m \in 1..Len(last(sets)) :
                    /\ last(sets)[m].ruleNo = c.ruleNo
                    /\ last(sets)[m].pos = c.pos + 1
                    /\ last(sets)[m].origin = c.origin

\* C27: when the constructor or push() has returned, an item of set k with
\* its dot at position 1 or later that expects symbol s has, for every rule
\* p of predictions_for_symbols[s], the item (p, 0, k) in set k.
C27_PredictionClosure ==
  (constructed /\ ~threw) =>
    \A k \in 1..Len(sets) :
      \A l \in 1..Len(sets[k]) :
        (sets[k][l].pos >= 1 /\ nextSymbol(grammar, sets[k][l]) # null) =>
          LET list == grammar.predictions_for_symbols[nextSymbol(grammar, sets[k][l])]
          IN \A n \in 1..Len(list) :
               \E m \in 1..Len(sets[k]) :
                 /\ sets[k][m].ruleNo = list[n]
                 /\ sets[k][m].pos = 0
                 /\ sets[k][m].origin = k - 1

\* an advanced item and a completed one, each expecting a symbol with rules
C27_Witness ==
  /\ constructed
  /\ ~threw
  /\ \E k \in 1..Len(sets) :
       /\ \E l \in 1..Len(sets[k]) :
            /\ sets[k][l].kind = "A"
            /\ nextSymbol(grammar, sets[k][l]) # null
            /\ grammar.predictions_for_symbols[nextSymbol(grammar, sets[k][l])] # <<>>
       /\ \E l \in 1..Len(sets[k]) :
            /\ sets[k][l].kind = "C"
            /\ nextSymbol(grammar, sets[k][l]) # null
            /\ grammar.predictions_for_symbols[nextSymbol(grammar, sets[k][l])] # <<>>

\* C28: for every grammar and every token the loop of complete(0) and of
\* each push comes to its end: set k never holds more items than there are
\* triples (rule, dot, origin <= k), so the loop inserts finitely often,
\* and a call that has begun returns (or throws).
C28_Terminates ==
  /\ [](\A k \in 1..Len(sets) : Len(sets[k]) <= dottedRules(grammar.rules, 1) * k)
  /\ (loopIndex # 0) ~> (loopIndex = 0)

\* the constructor's loop in a set with a completed rule of empty rhs, and
\* the loop of a push for a grammar with a unit rule A -> A or a rule that
\* begins with its own lhs, with items it has added
C28_Witness ==
  /\ loopIndex > 1
  /\ \E l \in 1..Len(last(sets)) : last(sets)[l].kind = "C"
  /\ \/ /\ ~constructed
        /\ \E j \in 1..Len(grammar.rules) : Len(grammar.rules[j].symbols) = 0
     \/ /\ constructed
        /\ \E j \in 1..Len(grammar.rules) :
             /\ Len(grammar.rules[j].symbols) > 0
             /\ grammar.rules[j].symbols[1] = grammar.rules[j].sym

\* a rule whose last rhs symbol is its own lhs or leads back to it through
\* rightmost symbols
RightRecursiveRule(rule) ==
  /\ Len(rule.symbols) > 0
  /\ \/ last(rule.symbols) = rule.sym
     \/ rule.sym \in ReachPlus(last(rule.symbols), LastOf)

\* C29: a Leo value computed for rule r and dot position pos is not null
\* iff r is right-recursive and pos = |rhs(r)| - 1; stated for the
\* predicted items, whose value is always computed: a predicted item whose
\* own rule is not right-recursive, or has more than one rhs symbol,
\* carries none.
C29_LeoEligibility ==
  \A k \in 1..Len(sets) :
    \A l \in 1..Len(sets[k]) :
      sets[k][l].kind = "P" =>
        ((sets[k][l].leo # null) <=>
           (/\ RightRecursiveRule(grammar.rules[sets[k][l].ruleNo + 1])
            /\ sets[k][l].pos = Len(grammar.rules[sets[k][l].ruleNo + 1].symbols) - 1))

\* C30: when complete has processed a completed item d with a Leo value,
\* sets[d.leo] holds exactly one item that expects lhs(d).
C30_LeoTargetUnique ==
  (constructed /\ ~threw) =>
    \A k \in 1..Len(sets) :
      \A l \in 1..Len(sets[k]) :
        LET d == sets[k][l]
        IN (d.pos >= Len(grammar.rules[d.ruleNo + 1].symbols) /\ d.leo # null) =>
             Cardinality({n \in 1..Len(sets[d.leo + 1]) :
                            nextSymbol(grammar, sets[d.leo + 1][n])
                              = grammar.rules[d.ruleNo + 1].sym}) = 1

predictCandidateNoLeo(g, cur, candidate, which) ==
  LET rule == g.rules[candidate.ruleNo + 1]
  IN IF candidate.pos = 0 THEN cur
     ELSE IF Len(rule.symbols) > candidate.pos
     THEN expandPredicted(cur, g.predictions_for_symbols[rule.symbols[candidate.pos + 1]], 1,
                          null, which)
     ELSE cur

RECURSIVE advanceFromNoLeo(_, _, _, _, _, _)
advanceFromNoLeo(g, cur, prev, i, sym, which) ==
  IF i > Len(prev) THEN cur
  ELSE LET candidate == prev[i]
           rule == g.rules[candidate.ruleNo + 1]
           newItem == Item(candidate.ruleNo, candidate.pos + 1, candidate.origin, null, "A")
       IN IF at(rule.symbols, candidate.pos) = sym
          THEN advanceFromNoLeo(g, predictCandidateNoLeo(g, add(cur, newItem), newItem, which),
                                prev, i + 1, sym, which)
          ELSE advanceFromNoLeo(g, cur, prev, i + 1, sym, which)

advanceNoLeo(g, chart, which, tok) ==
  LET sym == symbolOf(g, tok)
      cur == chart[which + 1]
  IN IF sym = -1 THEN cur
     ELSE IF which - 1 < 0 THEN cur
     ELSE advanceFromNoLeo(g, cur, chart[which], 1, sym, which)

RECURSIVE earleyFromNoLeo(_, _, _, _, _, _, _)
earleyFromNoLeo(g, cur, from, i, n, sym, which) ==
  IF i > n THEN cur
  ELSE LET candidate == from[i]
           newRule == Item(candidate.ruleNo, candidate.pos + 1, candidate.origin, null, "C")
       IN IF sym = nextSymbol(g, candidate)
          THEN earleyFromNoLeo(g, predictCandidateNoLeo(g, add(cur, newRule), newRule, which),
                               from, i + 1, n, sym, which)
          ELSE earleyFromNoLeo(g, cur, from, i + 1, n, sym, which)

RECURSIVE completeFromNoLeo(_, _, _, _)
completeFromNoLeo(g, chart, which, i) ==
  IF i > Len(chart[which + 1]) THEN chart
  ELSE LET cur == chart[which + 1]
           drule == cur[i]
           from == chart[drule.origin + 1]
       IN IF drule.pos < Len(g.rules[drule.ruleNo + 1].symbols)
          THEN completeFromNoLeo(g, chart, which, i + 1)
          ELSE completeFromNoLeo(g,
                 [chart EXCEPT ![which + 1] =
                    earleyFromNoLeo(g, cur, from, 1, Len(from),
                                    g.rules[drule.ruleNo + 1].sym, which)],
                 which, i + 1)

\* the chart of the Leo-free engine after Parser(g) and a push of each token
\* of toParse from index i on, chart being its chart before
RECURSIVE pushAllNoLeo(_, _, _, _)
pushAllNoLeo(g, chart, toParse, i) ==
  IF i > Len(toParse) THEN chart
  ELSE LET chart0 == Append(chart, <<>>)
           which == Len(chart)
           advanced == [chart0 EXCEPT ![which + 1] = advanceNoLeo(g, chart0, which, toParse[i])]
       IN pushAllNoLeo(g, completeFromNoLeo(g, advanced, which, 1), toParse, i + 1)

ChartNoLeo == pushAllNoLeo(grammar, completeFromNoLeo(grammar, <<initialize(grammar)>>, 0, 1),
                           input, 1)

\* C32: for every grammar and token sequence, success() of the recognizer
\* equals success() of the same engine with Leo disabled.
C32_LeoChangesNothing ==
  (constructed /\ ~threw) =>
    (success(grammar, sets, currentSet)
       <=> success(grammar, ChartNoLeo, Len(input) + 1))

====
